---- MODULE Spec2Model ----
(***************************************************************************)
(* Speech synthesis pipeline of src/main.py: parse_audio_mime_type,        *)
(* convert_to_wav, generate_speech_with_gemini and the speak_text endpoint. *)
(*                                                                         *)
(* Python str values are sequences of one-character strings, bytes values  *)
(* are sequences of 0..255, and Python int values are sign-magnitude       *)
(* numbers whose magnitude is a little-endian sequence of base-256 digits  *)
(* (Python ints are unbounded; TLC's are 32-bit).                          *)
(***************************************************************************)
EXTENDS Integers, Sequences, FiniteSets, TLC

\* ------------------------------------------------------------------ bounds
MaxChunks == 3

\* ------------------------------------------------------- program constants
DefaultBits == 16
DefaultRate == 24000
NumChannels == 1
SilenceSampWidth == 2
SilenceFrameRate == 24000
SilenceSeconds == 1
EmergencyChannels == 1
EmergencySampWidth == 2
EmergencyFrameRate == 24000
EmergencySeconds == 1
RiffOverhead == 36

\* Python's None, kept apart from every str value (whose elements are one
\* character long).
NoneVal == <<"None">>

\* ----------------------------------------------------------- str helpers
UpperLetters ==
  <<"A","B","C","D","E","F","G","H","I","J","K","L","M",
    "N","O","P","Q","R","S","T","U","V","W","X","Y","Z">>
LowerLetters ==
  <<"a","b","c","d","e","f","g","h","i","j","k","l","m",
    "n","o","p","q","r","s","t","u","v","w","x","y","z">>

LowerChar(c) ==
  IF \E i \in 1..26 : UpperLetters[i] = c
  THEN LowerLetters[CHOOSE i \in 1..26 : UpperLetters[i] = c]
  ELSE c

\* str.lower()
Lower(s) == [i \in 1..Len(s) |-> LowerChar(s[i])]

\* Characters str.strip() and int() treat as whitespace (the ASCII ones).
Whitespace == {" ", "\t", "\n", "\r", "\f"}

RECURSIVE LStrip(_)
LStrip(s) ==
  IF s # <<>> /\ Head(s) \in Whitespace THEN LStrip(Tail(s)) ELSE s

RECURSIVE RStrip(_)
RStrip(s) ==
  IF s # <<>> /\ s[Len(s)] \in Whitespace
  THEN RStrip(SubSeq(s, 1, Len(s) - 1)) ELSE s

\* str.strip()
Strip(s) == RStrip(LStrip(s))

\* str.startswith(p)
StartsWith(s, p) == Len(s) >= Len(p) /\ SubSeq(s, 1, Len(p)) = p

\* p in s
Contains(s, p) ==
  \E i \in 0..(Len(s) - Len(p)) : SubSeq(s, i + 1, i + Len(p)) = p

\* s.split(sep): the list of the pieces between the separators, never empty.
RECURSIVE Split(_, _)
Split(s, sep) ==
  IF \E i \in 1..Len(s) : s[i] = sep
  THEN LET k == CHOOSE i \in 1..Len(s) :
                  s[i] = sep /\ \A j \in 1..(i - 1) : s[j] # sep
       IN <<SubSeq(s, 1, k - 1)>> \o Split(SubSeq(s, k + 1, Len(s)), sep)
  ELSE <<s>>

\* s.split(sep, 1): one piece when sep is absent, else the text before and
\* after the first sep.
Split1(s, sep) ==
  IF \E i \in 1..Len(s) : s[i] = sep
  THEN LET k == CHOOSE i \in 1..Len(s) :
                  s[i] = sep /\ \A j \in 1..(i - 1) : s[j] # sep
       IN <<SubSeq(s, 1, k - 1), SubSeq(s, k + 1, Len(s))>>
  ELSE <<s>>

\* ------------------------------------------------------ Python int values
Digits == <<"0","1","2","3","4","5","6","7","8","9">>
IsDigit(c) == \E i \in 1..10 : Digits[i] = c
DigitVal(c) == (CHOOSE i \in 1..10 : Digits[i] = c) - 1

\* Magnitudes: little-endian base-256 digits, no leading (last) zero.
RECURSIVE NormMag(_)
NormMag(m) ==
  IF m # <<>> /\ m[Len(m)] = 0 THEN NormMag(SubSeq(m, 1, Len(m) - 1)) ELSE m

\* m * k + c for small k, c
RECURSIVE MulAddMag(_, _, _)
MulAddMag(m, k, c) ==
  IF m = <<>>
  THEN IF c = 0 THEN <<>> ELSE <<c % 256>> \o MulAddMag(<<>>, k, c \div 256)
  ELSE LET t == Head(m) * k + c
       IN <<t % 256>> \o MulAddMag(Tail(m), k, t \div 256)

RECURSIVE AddMag(_, _, _)
AddMag(a, b, c) ==
  IF a = <<>> /\ b = <<>>
  THEN IF c = 0 THEN <<>> ELSE <<c>>
  ELSE LET x == IF a = <<>> THEN 0 ELSE Head(a)
           y == IF b = <<>> THEN 0 ELSE Head(b)
           t == x + y + c
       IN <<t % 256>> \o AddMag(IF a = <<>> THEN a ELSE Tail(a),
                                 IF b = <<>> THEN b ELSE Tail(b), t \div 256)

RECURSIVE MulMag(_, _)
MulMag(a, b) ==
  IF b = <<>> THEN <<>>
  ELSE NormMag(AddMag(MulAddMag(a, Head(b), 0), <<0>> \o MulMag(a, Tail(b)), 0))

\* One step of the long division: the digit d under the result hi of the
\* digits above it.
DivStep(hi, d, k) ==
  [q |-> <<(hi.r * 256 + d) \div k>> \o hi.q, r |-> (hi.r * 256 + d) % k]

\* Quotient and remainder of a magnitude by a small k.
RECURSIVE DivRemMag(_, _)
DivRemMag(m, k) ==
  IF m = <<>> THEN [q |-> <<>>, r |-> 0]
  ELSE DivStep(DivRemMag(Tail(m), k), Head(m), k)

PyIntOfNorm(neg, m) == [neg |-> neg /\ m # <<>>, mag |-> m]

PyInt(neg, mag) == PyIntOfNorm(neg, NormMag(mag))

Zero == [neg |-> FALSE, mag |-> <<>>]

RECURSIVE NatMag(_)
NatMag(n) == IF n = 0 THEN <<>> ELSE <<n % 256>> \o NatMag(n \div 256)

\* The Python int of a natural number of the model.
FromNat(n) == PyInt(FALSE, NatMag(n))

\* a * b
PyMul(a, b) == PyInt(a.neg # b.neg, MulMag(a.mag, b.mag))

\* The floor of a quotient from the quotient and remainder d of the
\* magnitudes: a negative quotient with a remainder is one further from zero.
FloorOf(neg, d) ==
  IF neg /\ d.r # 0
  THEN PyInt(TRUE, MulAddMag(NormMag(d.q), 1, 1))
  ELSE PyInt(neg, d.q)

\* a // k for a small positive k (floor division)
PyFloorDiv(a, k) == FloorOf(a.neg, DivRemMag(a.mag, k))

\* The value of a run of decimal digits and underscores.
RECURSIVE DecMag(_, _)
DecMag(s, acc) ==
  IF s = <<>> THEN acc
  ELSE IF Head(s) = "_" THEN DecMag(Tail(s), acc)
  ELSE DecMag(Tail(s), MulAddMag(acc, 10, DigitVal(Head(s))))

\* Decimal digits with single underscores between them.
ValidIntBody(body) ==
  /\ body # <<>>
  /\ IsDigit(body[1])
  /\ IsDigit(body[Len(body)])
  /\ \A i \in 1..Len(body) : IsDigit(body[i]) \/ body[i] = "_"
  /\ \A i \in 1..(Len(body) - 1) : ~(body[i] = "_" /\ body[i + 1] = "_")

IntOfBody(neg, body) ==
  IF ValidIntBody(body)
  THEN [ok |-> TRUE, val |-> PyInt(neg, DecMag(body, <<>>))]
  ELSE [ok |-> FALSE, val |-> Zero]

\* t without its sign
IntBody(t) == IF t # <<>> /\ Head(t) \in {"+", "-"} THEN Tail(t) ELSE t

IntOfStripped(t) == IntOfBody(t # <<>> /\ Head(t) = "-", IntBody(t))

\* int(s) for a str: surrounding whitespace, one optional sign, decimal digits
\* with single underscores between them.  ok = FALSE is ValueError.
IntOfStr(s) == IntOfStripped(Strip(s))

\* ------------------------------------------------- parse_audio_mime_type
sRateEq == <<"r","a","t","e","=">>
sAudioL == <<"a","u","d","i","o","/","L">>

\* The outcome of int(): the value, or ValueError.
IntOutcome(r) ==
  IF r.ok THEN [exc |-> "", val |-> r.val]
  ELSE [exc |-> "ValueError", val |-> Zero]

\* Variant: int(pieces[0]), the piece before the separator.
IntOfSecond_First(pieces) == IntOutcome(IntOfStr(pieces[1]))

\* int(pieces[1]): the value, or the exception the expression raises.
IntOfSecond(pieces) ==
  IF Len(pieces) < 2 THEN [exc |-> "IndexError", val |-> Zero]
  ELSE IntOutcome(IntOfStr(pieces[2]))

\* Variant: except IndexError only.
CaughtByParse_IndexOnly == {"IndexError"}

\* except (ValueError, IndexError): pass
CaughtByParse == {"ValueError", "IndexError"}

\* The body of the loop over the segments: one segment updates the rate, the
\* bit depth, or nothing.  d.exc names an exception that left the function
\* (none does: the two the try bodies raise are caught and leave the field as
\* it was).
SetRate(d, n) ==
  IF n.exc = "" THEN [d EXCEPT !.rate = n.val]
  ELSE IF n.exc \in CaughtByParse THEN d
  ELSE [d EXCEPT !.exc = n.exc]

SetBits(d, n) ==
  IF n.exc = "" THEN [d EXCEPT !.bits_per_sample = n.val]
  ELSE IF n.exc \in CaughtByParse THEN d
  ELSE [d EXCEPT !.exc = n.exc]

\* The loop body for the stripped segment param.
ParseStripped(d, param) ==
  IF d.exc # "" THEN d
  ELSE IF StartsWith(Lower(param), sRateEq)
  THEN SetRate(d, IntOfSecond(Split1(param, "=")))
  ELSE IF StartsWith(param, sAudioL)
  THEN SetBits(d, IntOfSecond(Split1(param, "L")))
  ELSE d

ParseParam(d, raw) == ParseStripped(d, Strip(raw))

RECURSIVE ParseParams(_, _)
ParseParams(d, parts) ==
  IF parts = <<>> THEN d
  ELSE ParseParams(ParseParam(d, Head(parts)), Tail(parts))

parse_audio_mime_type(mime_type) ==
  ParseParams([bits_per_sample |-> FromNat(DefaultBits),
               rate |-> FromNat(DefaultRate), exc |-> ""],
              Split(mime_type, ";"))

\* ------------------------------------------------------------ struct.pack
sErrIFormat == <<"'","I","'"," ","f","o","r","m","a","t"," ","r","e","q","u","i","r","e","s"," ","0"," ","<","="," ","n","u","m","b","e","r"," ","<","="," ","4","2","9","4","9","6","7","2","9","5">>
sErrUShort == <<"u","s","h","o","r","t"," ","f","o","r","m","a","t"," ","r","e","q","u","i","r","e","s"," ","0"," ","<","="," ","n","u","m","b","e","r"," ","<","="," ","6","5","5","3","5">>
sErrRange == <<"a","r","g","u","m","e","n","t"," ","o","u","t"," ","o","f"," ","r","a","n","g","e">>

PadMag(m, w) == m \o [i \in 1..(w - Len(m)) |-> 0]

\* |v| < 2^63, resp. v >= -2^63: what fits the C long struct converts through.
BelowTwo63(m) == Len(m) <= 7 \/ (Len(m) = 8 /\ m[8] < 128)
IsTwo63(m) == m = <<0, 0, 0, 0, 0, 0, 0, 128>>

\* "<I": 4 bytes, little-endian, unsigned.
PackI(v) ==
  IF ~v.neg /\ Len(v.mag) <= 4
  THEN [ok |-> TRUE, bytes |-> PadMag(v.mag, 4), err |-> <<>>]
  ELSE IF ~v.neg /\ Len(v.mag) <= 8
  THEN [ok |-> FALSE, bytes |-> <<>>, err |-> sErrIFormat]
  ELSE [ok |-> FALSE, bytes |-> <<>>, err |-> sErrRange]

\* "<H": 2 bytes, little-endian, unsigned.
PackH(v) ==
  IF ~v.neg /\ Len(v.mag) <= 2
  THEN [ok |-> TRUE, bytes |-> PadMag(v.mag, 2), err |-> <<>>]
  ELSE IF BelowTwo63(v.mag) \/ (v.neg /\ IsTwo63(v.mag))
  THEN [ok |-> FALSE, bytes |-> <<>>, err |-> sErrUShort]
  ELSE [ok |-> FALSE, bytes |-> <<>>, err |-> sErrRange]

PackField(f) ==
  IF f.code = "I" THEN PackI(f.val)
  ELSE IF f.code = "H" THEN PackH(f.val)
  ELSE [ok |-> TRUE, bytes |-> f.bytes, err |-> <<>>]

\* struct.pack over the fields in order: the first field out of range raises
\* struct.error with that field's message.
PackJoin(h, r) ==
  IF ~h.ok THEN h
  ELSE IF ~r.ok THEN r
  ELSE [ok |-> TRUE, bytes |-> h.bytes \o r.bytes, err |-> <<>>]

RECURSIVE StructPack(_)
StructPack(fields) ==
  IF fields = <<>> THEN [ok |-> TRUE, bytes |-> <<>>, err |-> <<>>]
  ELSE PackJoin(PackField(Head(fields)), StructPack(Tail(fields)))

FieldS(b) == [code |-> "s", bytes |-> b, val |-> Zero]
FieldI(v) == [code |-> "I", bytes |-> <<>>, val |-> v]
FieldH(v) == [code |-> "H", bytes |-> <<>>, val |-> v]

TagRIFF == <<82, 73, 70, 70>>
TagWAVE == <<87, 65, 86, 69>>
TagFmt == <<102, 109, 116, 32>>
TagData == <<100, 97, 116, 97>>

\* The 13 fields of "<4sI4s4sIHHIIHH4sI" in order.
WavHeaderFields(chunk_size, num_channels, sample_rate, byte_rate, block_align, bits_per_sample, data_size) ==
  << FieldS(TagRIFF), FieldI(chunk_size), FieldS(TagWAVE), FieldS(TagFmt),
     FieldI(FromNat(16)), FieldH(FromNat(1)), FieldH(num_channels),
     FieldI(sample_rate), FieldI(byte_rate), FieldH(block_align),
     FieldH(bits_per_sample), FieldS(TagData), FieldI(data_size) >>

\* ---------------------------------------------------------- convert_to_wav
\* Variant: chunk_size counts the whole file, 44 + data_size.
WavHeader_Size44(data_size, num_channels, sample_rate, block_align, bits_per_sample) ==
  StructPack(WavHeaderFields(FromNat(44 + data_size), num_channels,
               sample_rate, PyMul(sample_rate, block_align), block_align,
               bits_per_sample, FromNat(data_size)))

\* header = struct.pack(...) with byte_rate = sample_rate * block_align and
\* chunk_size = 36 + data_size.
\* ok = FALSE: struct.error with text err propagates to the caller.
WavHeader(data_size, num_channels, sample_rate, block_align, bits_per_sample) ==
  StructPack(WavHeaderFields(FromNat(RiffOverhead + data_size), num_channels,
               sample_rate, PyMul(sample_rate, block_align), block_align,
               bits_per_sample, FromNat(data_size)))

\* return header + audio_data
HeaderPlus(header, audio_data) ==
  IF header.ok
  THEN [ok |-> TRUE, bytes |-> header.bytes \o audio_data, err |-> <<>>]
  ELSE header

\* The function after its first line, with block_align = num_channels *
\* bytes_per_sample and bytes_per_sample = bits_per_sample // 8.
ConvertWith(audio_data, parameters) ==
  IF parameters.exc # ""
  THEN [ok |-> FALSE, bytes |-> <<>>, err |-> <<>>]
  ELSE HeaderPlus(
         WavHeader(Len(audio_data), FromNat(NumChannels), parameters.rate,
                   PyMul(FromNat(NumChannels),
                         PyFloorDiv(parameters.bits_per_sample, 8)),
                   parameters.bits_per_sample),
         audio_data)

convert_to_wav(audio_data, mime_type) ==
  ConvertWith(audio_data, parse_audio_mime_type(mime_type))

\* ------------------------------------------------- the silent container
\* b'\x00\x00' * n
RepeatBytes(pat, n) ==
  [i \in 1..(Len(pat) * n) |-> pat[((i - 1) % Len(pat)) + 1]]

\* wave.open(buf, 'wb') with setnchannels, setsampwidth, setframerate and one
\* writeframes(frames): the wave module writes the canonical 44-byte header
\* for the frames, then the frames.
WaveWrite(nchannels, sampwidth, framerate, frames) ==
  StructPack(WavHeaderFields(
    FromNat(RiffOverhead + Len(frames)), FromNat(nchannels), FromNat(framerate),
    FromNat(nchannels * framerate * sampwidth), FromNat(nchannels * sampwidth),
    FromNat(sampwidth * 8), FromNat(Len(frames)))).bytes \o frames

\* Variant: half a second of silence.
minimal_wav_Half ==
  WaveWrite(NumChannels, SilenceSampWidth, SilenceFrameRate,
            RepeatBytes(<<0, 0>>, SilenceFrameRate \div 2))

\* The container built when the stream ended without audio.
minimal_wav ==
  WaveWrite(NumChannels, SilenceSampWidth, SilenceFrameRate,
            RepeatBytes(<<0, 0>>, SilenceFrameRate * SilenceSeconds))

\* Variant: 8-bit samples in the except clause.
emergency_wav_8bit ==
  WaveWrite(EmergencyChannels, 1, EmergencyFrameRate,
            RepeatBytes(<<0>>, EmergencyFrameRate * EmergencySeconds))

\* The container built in the except clause.
emergency_wav ==
  WaveWrite(EmergencyChannels, EmergencySampWidth, EmergencyFrameRate,
            RepeatBytes(<<0, 0>>, EmergencyFrameRate * EmergencySeconds))

\* -------------------------------------------- mimetypes.guess_extension
sAudioXWav == <<"a","u","d","i","o","/","x","-","w","a","v">>
sAudioMpeg == <<"a","u","d","i","o","/","m","p","e","g">>
sAudioBasic == <<"a","u","d","i","o","/","b","a","s","i","c">>
sExtWav == <<".","w","a","v">>
sExtMp3 == <<".","m","p","3">>
sExtAu == <<".","a","u">>

\* The audio types of the module's built-in table that the model's inputs
\* can name; every other type has no extension.
TypesMapInv ==
  { <<sAudioXWav, sExtWav>>, <<sAudioMpeg, sExtMp3>>, <<sAudioBasic, sExtAu>> }

\* The type is lower-cased and looked up whole (parameters are not removed).
guess_extension(mime_type) ==
  IF \E e \in TypesMapInv : e[1] = Lower(mime_type)
  THEN (CHOOSE e \in TypesMapInv : e[1] = Lower(mime_type))[2]
  ELSE NoneVal

\* ------------------------------------------------------- quota signature
s429 == <<"4","2","9">>
sRESOURCE_EXHAUSTED == <<"R","E","S","O","U","R","C","E","_","E","X","H","A","U","S","T","E","D">>
sQuota == <<"q","u","o","t","a">>

\* Variant: "quota" looked for without lower-casing the text.
IsQuotaError_CaseSensitive(error_str) ==
  \/ Contains(error_str, s429)
  \/ Contains(error_str, sRESOURCE_EXHAUSTED)
  \/ Contains(error_str, sQuota)

IsQuotaError(error_str) ==
  \/ Contains(error_str, s429)
  \/ Contains(error_str, sRESOURCE_EXHAUSTED)
  \/ Contains(Lower(error_str), sQuota)

\* ----------------------------------------------------------------- state
VARIABLES
  pc,             \* "idle": request received; "streaming": inside the for
                  \* loop over the upstream stream; "done": response sent
  text,           \* request.text
  seen,           \* the chunks the loop has taken from the stream, in order
  audio_buffer,   \* audio_buffer.getvalue()
  mime_type,      \* NoneVal or a str
  chunk_count,
  upstream_calls, \* calls of client.models.generate_content_stream
  voice_name,     \* voice_name of the config the upstream call was given
  ended,          \* the for loop ran to the end of the stream
  error_str,      \* str(e) of the exception the handler caught, or NoneVal
  outcome,        \* the return statement generate_speech_with_gemini took
  audio_data,     \* the bytes generate_speech_with_gemini returned
  status,         \* HTTP status of the response (0: none yet)
  detail,         \* the message of the response
  wpc, wmime, wdata, wdesc, wout, werr  \* the harness of the pure functions

vars == <<pc, text, seen, audio_buffer, mime_type, chunk_count, upstream_calls,
          voice_name, ended, error_str, outcome, audio_data, status, detail,
          wpc, wmime, wdata, wdesc, wout, werr>>

callVars == <<pc, text, seen, audio_buffer, mime_type, chunk_count,
              upstream_calls, voice_name, ended, error_str, outcome,
              audio_data, status, detail>>
wavVars == <<wpc, wmime, wdata, wdesc, wout, werr>>

\* ---------------------------------------------------------------- inputs
sHello == <<"H","e","l","l","o">>
sNote == <<"n","o","t","e">>
mimeL16 == <<"a","u","d","i","o","/","L","1","6",";","r","a","t","e","=","2","4","0","0","0">>
mimeHugeRate == <<"a","u","d","i","o","/","L","1","6",";","r","a","t","e","=","4","2","9","4","9","6","7","2","9","6">>
bAudio == <<97, 117, 100, 105, 111>>
bMore == <<109, 111, 114, 101>>

\* Texts of speak requests.
Texts == { <<>>, <<" ">>, <<"\t", "\n", " ">>, sHello }

\* A chunk of the stream: shape says how far chunk.candidates[0].content
\* .parts[0] can be followed; for shape "part", inline says whether
\* part.inline_data is set, data and mime are its fields, text is part.text.
Chunk(shape, inline, data, mime, t) ==
  [shape |-> shape, inline |-> inline, data |-> data, mime |-> mime, text |-> t]

AudioChunk(data, mime) == Chunk("part", TRUE, data, mime, NoneVal)
TextChunk(t) == Chunk("part", FALSE, <<>>, NoneVal, t)

Chunks ==
  { Chunk("candidates_none", FALSE, <<>>, NoneVal, NoneVal),
    Chunk("candidates_empty", FALSE, <<>>, NoneVal, NoneVal),
    Chunk("content_none", FALSE, <<>>, NoneVal, NoneVal),
    Chunk("parts_none", FALSE, <<>>, NoneVal, NoneVal),
    Chunk("parts_empty", FALSE, <<>>, NoneVal, NoneVal),
    TextChunk(sNote),
    Chunk("part", TRUE, <<>>, mimeL16, NoneVal),
    AudioChunk(bAudio, mimeL16),
    AudioChunk(bMore, NoneVal),
    AudioChunk(<<7>>, sAudioXWav),
    AudioChunk(<<9>>, mimeHugeRate) }

errTooMany == <<"4","2","9"," ","T","o","o"," ","M","a","n","y"," ","R","e","q","u","e","s","t","s">>
errExhausted == <<"s","t","a","t","u","s",":"," ","R","E","S","O","U","R","C","E","_","E","X","H","A","U","S","T","E","D">>
errQuotaCase == <<"Q","u","o","t","a"," ","e","x","c","e","e","d","e","d">>
errLowerExhausted == <<"r","e","s","o","u","r","c","e","_","e","x","h","a","u","s","t","e","d">>
errReset == <<"C","o","n","n","e","c","t","i","o","n"," ","r","e","s","e","t"," ","b","y"," ","p","e","e","r">>
sErrIndex == <<"l","i","s","t"," ","i","n","d","e","x"," ","o","u","t"," ","o","f"," ","r","a","n","g","e">>

\* Texts of the exceptions the upstream call and its stream raise.
ErrTexts == { errTooMany, errExhausted, errQuotaCase, errLowerExhausted, errReset }

\* --------------------------------------------------------------- speak_text
\* Variant: only the empty text is rejected.
IsBlankText_NoStrip(t) == t = <<>>

\* not request.text or request.text.strip() == ""
IsBlankText(t) == t = <<>> \/ Strip(t) = <<>>

msgBlank == "ValueError in speak_text: Text cannot be empty or whitespace only"
msgEmptyAudio == "ValueError in speak_text: FATAL: Charon voice generation returned empty audio"
msgAudio == "audio/wav"

\* What speak_text does with the bytes generate_speech_with_gemini returned.
SpeakResponse(data) ==
  IF data = <<>>
  THEN [status |-> 400, detail |-> msgEmptyAudio]
  ELSE [status |-> 200, detail |-> msgAudio]

\* ------------------------------------------ generate_speech_with_gemini
\* voice_name of prebuilt_voice_config; NoVoice while no call was made.
CharonVoice == "Charon"
NoVoice == "None"

\* The chunk is skipped by the `continue` of the structure check.
IsSkipped(c) == c.shape \in {"candidates_none", "content_none", "parts_none"}

\* Indexing [0] into an empty candidates or parts list raises IndexError.
RaisesIndexError(c) == c.shape \in {"candidates_empty", "parts_empty"}

\* part.inline_data and part.inline_data.data
CarriesAudio(c) == c.shape = "part" /\ c.inline /\ c.data # <<>>

\* Variant: the new bytes are put before the buffered ones.
BufferWrite_Prepend(buffer, data) == data \o buffer

\* audio_buffer.write(data)
BufferWrite(buffer, data) == buffer \o data

\* if mime_type is None: mime_type = part.inline_data.mime_type
CaptureMime(current, c) == IF current = NoneVal THEN c.mime ELSE current

\* Variant: every caught exception gives zero-length bytes.
ExceptHandler_AlwaysEmpty(e) == [outcome |-> "quota", bytes |-> <<>>]

\* Variant: a non-quota exception returns what was buffered so far.
ExceptHandler_Partial(e) ==
  IF IsQuotaError(e)
  THEN [outcome |-> "quota", bytes |-> <<>>]
  ELSE [outcome |-> "emergency_silence",
        bytes |-> IF audio_buffer # <<>> THEN audio_buffer ELSE emergency_wav]

\* The except handler: the value returned for an exception with text e.
ExceptHandler(e) ==
  IF IsQuotaError(e)
  THEN [outcome |-> "quota", bytes |-> <<>>]
  ELSE [outcome |-> "emergency_silence", bytes |-> emergency_wav]

\* The code after the loop, for a non-empty buffer: the returned value, or
\* the struct.error convert_to_wav raises.
Converted(wav) ==
  IF wav.ok
  THEN [raised |-> FALSE, outcome |-> "wrapped", bytes |-> wav.bytes,
        err |-> NoneVal]
  ELSE [raised |-> TRUE, outcome |-> "none", bytes |-> <<>>, err |-> wav.err]

Decide(data, mime) ==
  IF mime # NoneVal /\ mime # <<>> /\ guess_extension(mime) # sExtWav
  THEN Converted(convert_to_wav(data, mime))
  ELSE [raised |-> FALSE, outcome |-> "raw", bytes |-> data, err |-> NoneVal]

\* generate_speech_with_gemini returns bytes b by the return statement o, and
\* speak_text answers.
Respond(o, b, r) ==
  /\ outcome' = o
  /\ audio_data' = b
  /\ status' = r.status
  /\ detail' = r.detail
  /\ pc' = "done"

Return(o, b) == Respond(o, b, SpeakResponse(b))

ReturnOf(h) == Return(h.outcome, h.bytes)

\* An exception with text e reaches the except clause.
Raise(e) ==
  /\ error_str' = e
  /\ ReturnOf(ExceptHandler(e))

ReturnDecided(d) == ~d.raised /\ ReturnOf(d)

RaiseDecided(d) == d.raised /\ Raise(d.err)

Init ==
  /\ pc = "idle"
  /\ text \in Texts
  /\ seen = <<>>
  /\ audio_buffer = <<>>
  /\ mime_type = NoneVal
  /\ chunk_count = 0
  /\ upstream_calls = 0
  /\ voice_name = NoVoice
  /\ ended = FALSE
  /\ error_str = NoneVal
  /\ outcome = "none"
  /\ audio_data = <<>>
  /\ status = 0
  /\ detail = ""
  /\ wpc = "off" /\ wmime = <<>> /\ wdata = <<>>
  /\ wdesc = parse_audio_mime_type(<<>>) /\ wout = <<>> /\ werr = <<>>

\* speak_text rejects an empty or whitespace-only text.
SpeakReject ==
  /\ pc = "idle"
  /\ IsBlankText(text)
  /\ status' = 400
  /\ detail' = msgBlank
  /\ pc' = "done"
  /\ UNCHANGED <<text, seen, audio_buffer, mime_type, chunk_count,
                 upstream_calls, voice_name, ended, error_str, outcome, audio_data>>
  /\ UNCHANGED wavVars

\* Variant: the request is issued again after a zero-length result.
Request_Retry ==
  /\ pc = "idle" \/ (pc = "done" /\ upstream_calls = 1 /\ audio_data = <<>>)
  /\ ~IsBlankText(text)
  /\ upstream_calls' = upstream_calls + 1
  /\ voice_name' = CharonVoice
  /\ audio_buffer' = <<>>
  /\ mime_type' = NoneVal
  /\ chunk_count' = 0
  /\ pc' = "streaming"
  /\ UNCHANGED <<text, seen, ended, error_str, outcome, audio_data, status,
                 detail>>
  /\ UNCHANGED wavVars

\* speak_text calls generate_speech_with_gemini, which issues the request and
\* enters the loop over the stream.
Request ==
  /\ pc = "idle"
  /\ ~IsBlankText(text)
  /\ upstream_calls' = upstream_calls + 1
  /\ voice_name' = CharonVoice
  /\ audio_buffer' = <<>>
  /\ mime_type' = NoneVal
  /\ chunk_count' = 0
  /\ pc' = "streaming"
  /\ UNCHANGED <<text, seen, ended, error_str, outcome, audio_data, status,
                 detail>>
  /\ UNCHANGED wavVars

\* The stream yields a chunk without candidates, content or parts.
ChunkSkipped(c) ==
  /\ pc = "streaming" /\ Len(seen) < MaxChunks
  /\ IsSkipped(c)
  /\ seen' = Append(seen, c)
  /\ UNCHANGED <<pc, text, audio_buffer, mime_type, chunk_count, upstream_calls, voice_name,
                 ended, error_str, outcome, audio_data, status, detail>>
  /\ UNCHANGED wavVars

\* The stream yields a chunk whose candidates or parts list is empty.
ChunkIndexError(c) ==
  /\ pc = "streaming" /\ Len(seen) < MaxChunks
  /\ RaisesIndexError(c)
  /\ seen' = Append(seen, c)
  /\ Raise(sErrIndex)
  /\ UNCHANGED <<text, audio_buffer, mime_type, chunk_count, upstream_calls, voice_name,
                 ended>>
  /\ UNCHANGED wavVars

\* The stream yields a chunk whose first part carries audio bytes.
ChunkAudio(c) ==
  /\ pc = "streaming" /\ Len(seen) < MaxChunks
  /\ ~IsSkipped(c) /\ ~RaisesIndexError(c)
  /\ CarriesAudio(c)
  /\ seen' = Append(seen, c)
  /\ chunk_count' = chunk_count + 1
  /\ audio_buffer' = BufferWrite(audio_buffer, c.data)
  /\ mime_type' = CaptureMime(mime_type, c)
  /\ UNCHANGED <<pc, text, upstream_calls, voice_name, ended, error_str, outcome,
                 audio_data, status, detail>>
  /\ UNCHANGED wavVars

\* The stream yields a chunk whose first part carries no audio bytes (its
\* text, if any, is only printed).
ChunkNoAudio(c) ==
  /\ pc = "streaming" /\ Len(seen) < MaxChunks
  /\ ~IsSkipped(c) /\ ~RaisesIndexError(c)
  /\ ~CarriesAudio(c)
  /\ seen' = Append(seen, c)
  /\ UNCHANGED <<pc, text, audio_buffer, mime_type, chunk_count, upstream_calls, voice_name,
                 ended, error_str, outcome, audio_data, status, detail>>
  /\ UNCHANGED wavVars

\* The upstream call or its stream raises an exception with text e.
StreamRaise(e) ==
  /\ pc = "streaming"
  /\ Raise(e)
  /\ UNCHANGED <<text, seen, audio_buffer, mime_type, chunk_count,
                 upstream_calls, voice_name, ended>>
  /\ UNCHANGED wavVars

\* The stream ends with an empty buffer: the silent container is returned.
EndEmpty ==
  /\ pc = "streaming"
  /\ audio_buffer = <<>>
  /\ ended' = TRUE
  /\ Return("empty_stream_silence", minimal_wav)
  /\ UNCHANGED <<text, seen, audio_buffer, mime_type, chunk_count,
                 upstream_calls, voice_name, error_str>>
  /\ UNCHANGED wavVars

\* The stream ends with audio in the buffer, which is returned wrapped or as
\* it is.
EndAudio ==
  /\ pc = "streaming"
  /\ audio_buffer # <<>>
  /\ ended' = TRUE
  /\ ReturnDecided(Decide(audio_buffer, mime_type))
  /\ UNCHANGED <<text, seen, audio_buffer, mime_type, chunk_count,
                 upstream_calls, voice_name, error_str>>
  /\ UNCHANGED wavVars

\* The stream ends with audio in the buffer and convert_to_wav raises
\* struct.error, which the except clause handles.
EndConvertError ==
  /\ pc = "streaming"
  /\ audio_buffer # <<>>
  /\ ended' = TRUE
  /\ RaiseDecided(Decide(audio_buffer, mime_type))
  /\ UNCHANGED <<text, seen, audio_buffer, mime_type, chunk_count,
                 upstream_calls, voice_name>>
  /\ UNCHANGED wavVars

Next ==
  \/ SpeakReject
  \/ Request
  \/ \E c \in Chunks : ChunkSkipped(c)
  \/ \E c \in Chunks : ChunkIndexError(c)
  \/ \E c \in Chunks : ChunkAudio(c)
  \/ \E c \in Chunks : ChunkNoAudio(c)
  \/ \E e \in ErrTexts : StreamRaise(e)
  \/ EndEmpty
  \/ EndAudio
  \/ EndConvertError

Spec == Init /\ [][Next]_vars

\* ------------------------------------------- the pure functions applied
MaxBits == 32
MaxPayloadLen == 2

\* str(n) for a natural number n
RECURSIVE DecStr(_)
DecStr(n) ==
  IF n < 10 THEN <<Digits[n + 1]>>
  ELSE DecStr(n \div 10) \o <<Digits[(n % 10) + 1]>>

\* "audio/L<b>;rate=<r>"
MimeOf(b, r) == sAudioL \o DecStr(b) \o <<";">> \o sRateEq \o DecStr(r)

PosBits == (1..MaxBits) \cup {65535, 65536}
PosRates == {1, 8000, 24000, 48000, 2147483647}

sRATEEq == <<"R","A","T","E","=">>
sAudiol == <<"a","u","d","i","o","/","l">>
sSpRateEq == <<" ","r","a","t","e","=">>
sRateSpEq == <<"r","a","t","e"," ","=">>
sXAudioL == <<"x","-","a","u","d","i","o","/","L">>
sAudioOgg == <<"a","u","d","i","o","/","o","g","g">>
sCodec == <<"c","o","d","e","c","=","p","c","m">>

\* Texts put where the digits belong.
NumTexts ==
  { <<"1","6">>,
    <<"8">>,
    <<"2","4">>,
    <<"7">>,
    <<"0">>,
    <<"-","8">>,
    <<"+","2","4">>,
    <<" ","8"," ">>,
    <<"1","_","6">>,
    <<"1","_","_","6">>,
    <<"0","1","6">>,
    <<"a","b","c">>,
    <<>>,
    <<"L","1","6">>,
    <<"1","=","2">>,
    <<"7","0","0","0","0">>,
    <<"2","4","0","0","0">>,
    <<"4","2","9","4","9","6","7","2","9","5">>,
    <<"4","2","9","4","9","6","7","2","9","6">>,
    <<"1","8","4","4","6","7","4","4","0","7","3","7","0","9","5","5","1","6","1","6">>,
    <<"-","9","2","2","3","3","7","2","0","3","6","8","5","4","7","7","5","8","0","9">>,
    <<"1",".","5">> }

SegPrefixes == {sRateEq, sRATEEq, sAudioL, sAudiol, sSpRateEq, sRateSpEq, sXAudioL}

Segments ==
  { p \o n : p \in SegPrefixes, n \in NumTexts }
    \cup { <<>>, sAudioOgg, sAudioXWav, sCodec, sRateEq, sAudioL }

\* The MIME strings given to the two functions.
MimeInputs ==
  { MimeOf(b, r) : b \in PosBits, r \in PosRates }
    \cup Segments
    \cup { (sAudioL \o b) \o <<";">> \o (sRateEq \o r) : b \in NumTexts, r \in NumTexts }
    \cup { (sRateEq \o <<"8","0","0","0">>) \o <<";">> \o g : g \in Segments }

PayloadBytes == {0, 255}
Payloads == UNION { [1..n -> PayloadBytes] : n \in 0..MaxPayloadLen }

InitWav ==
  /\ pc = "off"
  /\ text = <<>>
  /\ seen = <<>>
  /\ audio_buffer = <<>>
  /\ mime_type = NoneVal
  /\ chunk_count = 0
  /\ upstream_calls = 0
  /\ voice_name = NoVoice
  /\ ended = FALSE
  /\ error_str = NoneVal
  /\ outcome = "none"
  /\ audio_data = <<>>
  /\ status = 0
  /\ detail = ""
  /\ wpc = "in"
  /\ wmime \in MimeInputs
  /\ wdata \in Payloads
  /\ wdesc = parse_audio_mime_type(<<>>)
  /\ wout = <<>>
  /\ werr = <<>>

Packed(wav) == wav.ok /\ wout' = wav.bytes

PackRaised(wav) == ~wav.ok /\ werr' = wav.err

\* parse_audio_mime_type(wmime)
WavParse ==
  /\ wpc = "in"
  /\ wdesc' = parse_audio_mime_type(wmime)
  /\ wpc' = "parsed"
  /\ UNCHANGED <<wmime, wdata, wout, werr>>
  /\ UNCHANGED callVars

\* convert_to_wav(wdata, wmime) returns
WavConvert ==
  /\ wpc = "parsed"
  /\ Packed(convert_to_wav(wdata, wmime))
  /\ wpc' = "packed"
  /\ UNCHANGED <<wmime, wdata, wdesc, werr>>
  /\ UNCHANGED callVars

\* convert_to_wav(wdata, wmime) raises struct.error
WavConvertError ==
  /\ wpc = "parsed"
  /\ PackRaised(convert_to_wav(wdata, wmime))
  /\ wpc' = "raised"
  /\ UNCHANGED <<wmime, wdata, wdesc, wout>>
  /\ UNCHANGED callVars

NextWav == WavParse \/ WavConvert \/ WavConvertError

SpecWav == InitWav /\ [][NextWav]_vars

\* ================================================================ claims
\* Little-endian fields of a byte string, read at position i.
LE16(b, i) == b[i] + 256 * b[i + 1]
LE32(b, i) == b[i] + 256 * b[i + 1] + 65536 * b[i + 2] + 16777216 * b[i + 3]

\* The chunk carries an audio payload (some audio bytes).
HasAudioPayload(c) == c.shape = "part" /\ c.inline /\ Len(c.data) > 0

\* The error text has a quota signature: "429", "RESOURCE_EXHAUSTED", or
\* "quota" in any letter case.
QuotaSignature(e) ==
  \/ \E i \in 0..(Len(e) - 3) : SubSeq(e, i + 1, i + 3) = s429
  \/ \E i \in 0..(Len(e) - 18) : SubSeq(e, i + 1, i + 18) = sRESOURCE_EXHAUSTED
  \/ \E i \in 0..(Len(e) - 5) : \A j \in 1..5 : LowerChar(e[i + j]) = sQuota[j]

\* b is a 44-byte RIFF/WAVE header followed by the bytes p.
IsContainerOf(b, p) ==
  /\ Len(b) = 44 + Len(p)
  /\ SubSeq(b, 1, 4) = TagRIFF
  /\ SubSeq(b, 9, 12) = TagWAVE
  /\ SubSeq(b, 45, Len(b)) = p

\* C1: when the stream ended without exception with a non-empty payload, the
\* result is the 44-byte header followed by the payload if a MIME type was
\* captured that does not denote WAV, and the payload itself otherwise.
C1_WrappedOrRaw ==
  (ended /\ audio_buffer # <<>>) =>
    IF mime_type # NoneVal /\ guess_extension(mime_type) # sExtWav
    THEN IsContainerOf(audio_data, audio_buffer)
    ELSE audio_data = audio_buffer

\* C2: an exception raised while requesting or aggregating whose text has a
\* quota signature makes generate_speech_with_gemini return zero-length bytes,
\* not the silent container, however much audio was aggregated.
C2_QuotaReturnsEmpty ==
  (error_str # NoneVal /\ ~ended /\ QuotaSignature(error_str)) =>
    (pc = "done" /\ outcome = "quota" /\ audio_data = <<>>)

C2_Witness ==
  /\ pc = "done" /\ ~ended
  /\ error_str = errQuotaCase
  /\ Len(seen) >= 2 /\ audio_buffer # <<>>
  /\ audio_data = <<>>

\* b is one second of mono, 16-bit, 24000 Hz silence in a container of
\* 44 + 48000 bytes.
IsSilentSecond(b) ==
  /\ Len(b) = 44 + 48000
  /\ SubSeq(b, 1, 4) = TagRIFF
  /\ SubSeq(b, 9, 12) = TagWAVE
  /\ LE16(b, 23) = 1
  /\ LE32(b, 25) = 24000
  /\ LE16(b, 35) = 16
  /\ LE32(b, 41) = 48000
  /\ \A i \in 45..Len(b) : b[i] = 0

\* C3: when the stream ended without raising and no chunk carried audio
\* bytes, the result is the one-second silent container.
C3_EmptyStreamSilence ==
  (ended /\ \A i \in 1..Len(seen) : ~HasAudioPayload(seen[i])) =>
    (pc = "done" /\ IsSilentSecond(audio_data))

C3_Witness ==
  /\ pc = "done" /\ ended
  /\ Len(seen) = 3
  /\ \E i \in 1..3 : seen[i] = TextChunk(sNote)
  /\ \E i \in 1..3 : seen[i].shape = "content_none"
  /\ Len(audio_data) = 48044

\* C4: an exception without a quota signature raised while requesting or
\* aggregating makes generate_speech_with_gemini return the container the
\* empty-stream case returns, never zero-length bytes.
C4_ErrorReturnsSameSilence ==
  (error_str # NoneVal /\ ~ended /\ ~QuotaSignature(error_str)) =>
    (pc = "done" /\ outcome = "emergency_silence"
       /\ audio_data # <<>> /\ audio_data = minimal_wav)

C4_Witness ==
  /\ pc = "done" /\ ~ended
  /\ error_str = errReset
  /\ audio_buffer # <<>>
  /\ outcome = "emergency_silence"
  /\ Len(audio_data) = 48044

\* C5: a request whose text is empty or only whitespace is rejected as a
\* caller error and never has an upstream request issued for it.
C5_BlankTextNeverUpstream ==
  (\A i \in 1..Len(text) : text[i] \in Whitespace) =>
    /\ upstream_calls = 0
    /\ pc # "streaming"
    /\ pc = "done" => (status = 400 /\ detail = msgBlank /\ outcome = "none")

C5_Witness ==
  /\ pc = "done"
  /\ text = <<"\t", "\n", " ">>
  /\ status = 400
  /\ upstream_calls = 0

\* C6: what convert_to_wav returns is a 44-byte header followed by the
\* payload, with data size len(P) at bytes 40-43 and chunk size 36 + len(P),
\* the total length minus 8, at bytes 4-7.
C6_HeaderSizes ==
  (wpc = "packed") =>
    /\ Len(wout) = 44 + Len(wdata)
    /\ SubSeq(wout, 45, Len(wout)) = wdata
    /\ LE32(wout, 41) = Len(wdata)
    /\ LE32(wout, 5) = 36 + Len(wdata)
    /\ LE32(wout, 5) = Len(wout) - 8

C6_Witness ==
  /\ wpc = "packed"
  /\ wmime = mimeL16
  /\ Len(wdata) = 2
  /\ Len(wout) = 46

\* C7: for a MIME string audio/L<b>;rate=<r> with positive integers b and r,
\* parse_audio_mime_type returns bits_per_sample = b and rate = r.
C7_ParsesWellFormed ==
  (wpc = "parsed") =>
    \A b \in PosBits, r \in PosRates :
      (wmime = MimeOf(b, r)) =>
        (wdesc.bits_per_sample = FromNat(b) /\ wdesc.rate = FromNat(r))

C7_Witness ==
  /\ wpc = "parsed"
  /\ wmime = MimeOf(24, 48000)
  /\ wdesc.rate = FromNat(48000)
  /\ wdesc.bits_per_sample = FromNat(24)

\* A segment from which a rate, resp. a bit depth, is parsed.
RateSegmentParses(seg) ==
  /\ StartsWith(Lower(Strip(seg)), sRateEq)
  /\ IntOfStr(SubSeq(Strip(seg), 6, Len(Strip(seg)))).ok

BitsSegmentParses(seg) ==
  /\ ~StartsWith(Lower(Strip(seg)), sRateEq)
  /\ StartsWith(Strip(seg), sAudioL)
  /\ IntOfStr(SubSeq(Strip(seg), 8, Len(Strip(seg)))).ok

NoSegment(segs, P(_)) == \A i \in 1..Len(segs) : ~P(segs[i])

\* C8: parse_audio_mime_type never raises, and a field that no segment gave
\* a value holds its default, 16 bits or 24000 Hz.
C8_DefaultsNeverRaises ==
  (wpc = "parsed") =>
    /\ wdesc.exc = ""
    /\ NoSegment(Split(wmime, ";"), RateSegmentParses)
         => wdesc.rate = FromNat(24000)
    /\ NoSegment(Split(wmime, ";"), BitsSegmentParses)
         => wdesc.bits_per_sample = FromNat(16)

C8_Witness ==
  /\ wpc = "parsed"
  /\ wmime = sRateEq \o <<"a", "b", "c">>
  /\ wdesc.rate = FromNat(24000)
  /\ wdesc.bits_per_sample = FromNat(16)

\* The audio bytes of the payload-bearing chunks, in order.
RECURSIVE PayloadsOf(_)
PayloadsOf(cs) ==
  IF cs = <<>> THEN <<>>
  ELSE IF HasAudioPayload(Head(cs)) THEN Head(cs).data \o PayloadsOf(Tail(cs))
  ELSE PayloadsOf(Tail(cs))

\* C9: while and after the stream is consumed without exception, the buffer
\* is the audio bytes of exactly the payload-bearing chunks, in arrival order.
C9_BufferIsConcatenation ==
  (pc = "streaming" \/ ended) => audio_buffer = PayloadsOf(seen)

C9_Witness ==
  /\ ended
  /\ seen = <<AudioChunk(bAudio, mimeL16), TextChunk(sNote),
              AudioChunk(bMore, NoneVal)>>
  /\ audio_buffer = bAudio \o bMore

\* The MIME type of the first payload-bearing chunk.
FirstPayloadMime(cs) ==
  cs[CHOOSE i \in 1..Len(cs) :
       HasAudioPayload(cs[i]) /\ \A j \in 1..(i - 1) : ~HasAudioPayload(cs[j])].mime

\* C10: once a payload-bearing chunk has been processed, the captured MIME
\* type is that of the first such chunk, whatever it was (a missing one too).
C10_FirstPayloadMime ==
  (\E i \in 1..Len(seen) : HasAudioPayload(seen[i])) =>
    mime_type = FirstPayloadMime(seen)

C12_MimeNeverAborts ==
  (ended /\ audio_buffer # <<>> /\ mime_type # NoneVal
     /\ guess_extension(mime_type) # sExtWav) =>
    (outcome = "wrapped" /\ error_str = NoneVal
       /\ IsContainerOf(audio_data, audio_buffer))

\* C13: at most one upstream request is issued, with the voice "Charon";
\* none follows an exception, a quota error or an empty result.
C13_OneRequestCharon ==
  /\ upstream_calls <= 1
  /\ upstream_calls = 1 => voice_name = "Charon"
  /\ upstream_calls = 0 => voice_name = "None"
  /\ pc = "idle" => upstream_calls = 0

C13_Witness ==
  /\ pc = "done"
  /\ error_str = errExhausted
  /\ audio_data = <<>>
  /\ upstream_calls = 1
  /\ voice_name = "Charon"

\* C14: a request whose synthesis ended on the quota path does not get the
\* response status a blank text gets, which is 400.
C14_QuotaNotBlankStatus ==
  (pc = "done" /\ outcome = "quota") => status # 400

\* Python ints: v > 0, resp. v divisible by 8 (256 is).
IsPositive(v) == ~v.neg /\ v.mag # <<>>
IsMultipleOf8(v) == v.mag = <<>> \/ v.mag[1] % 8 = 0

\* C15: every descriptor parse_audio_mime_type returns has bits_per_sample a
\* positive multiple of 8 and rate greater than 0.
C15_DescriptorInvariant ==
  (wpc = "parsed") =>
    /\ IsPositive(wdesc.bits_per_sample)
    /\ IsMultipleOf8(wdesc.bits_per_sample)
    /\ IsPositive(wdesc.rate)

\* The chunk carries no content or parts at all: candidates, content or parts
\* is absent or an empty collection.
NoContentOrParts(c) ==
  c.shape \in {"candidates_none", "candidates_empty", "content_none",
               "parts_none", "parts_empty"}

\* C16: taking a chunk without content or parts from the stream raises
\* nothing and leaves the buffer and the captured MIME type as they were, and
\* the loop goes on.
C16_NoContentSkipped ==
  [][ (pc = "streaming" /\ seen' # seen
         /\ NoContentOrParts(seen'[Len(seen')])) =>
        (pc' = "streaming" /\ error_str' = NoneVal
           /\ audio_buffer' = audio_buffer /\ mime_type' = mime_type) ]_vars

\* C17: an exception raised after audio was buffered gives zero-length bytes
\* or the silent container, never bytes built from the buffer.
C17_PartialAudioDropped ==
  (error_str # NoneVal /\ ~ended /\ audio_buffer # <<>>) =>
    /\ pc = "done"
    /\ outcome \notin {"raw", "wrapped"}
    /\ audio_data = <<>> \/ IsSilentSecond(audio_data)

C17_Witness ==
  /\ pc = "done" /\ ~ended
  /\ error_str = errLowerExhausted
  /\ audio_buffer = bAudio \o bMore
  /\ Len(audio_data) = 48044
  /\ audio_data[45] = 0

====
